---- MODULE Spec2Model ----
(***************************************************************************)
(* EgoVehicle of carla_ros_bridge (ego_vehicle.py): the per-tick status    *)
(* fan-out (send_vehicle_msgs), the trajectory follower (set_pose), the    *)
(* inbound callbacks of the two transports and the teardown (destroy).     *)
(*                                                                         *)
(* Threads.  update() and destroy() run on the bridge's main thread.  The  *)
(* callbacks run on the transports' threads and interleave with the main   *)
(* thread between any two reads or writes of shared state.  A step of the  *)
(* model holds at most one access to state another thread writes; a        *)
(* callback with a single such access (apply_control, set_autopilot) is    *)
(* one step, and the order of these steps is the order of receipt.         *)
(*                                                                         *)
(* Specifications.  The control commands write only the actor's control    *)
(* and the trajectory messages only planned_trajectory, so the two are     *)
(* checked apart: SpecStatus runs update() against the control callbacks,  *)
(* SpecPlan runs it against the planning reader and the clock, and         *)
(* SpecDestroy runs destroy() against all four callbacks.                  *)
(*                                                                         *)
(* Numbers.  Control values are fixed-point: a real r is stored as the     *)
(* integer 100*r, so the fraction 0.5 is 50 and the percentage 50.0 is     *)
(* 5000.  Inputs are whole percents, which keeps /100.0 exact; floating    *)
(* point rounding is not modelled.  Times are whole clock units.  Angles   *)
(* are quarter turns (theta = 1 is pi/2 rad), which keeps math.degrees and *)
(* the forward vector exact.                                               *)
(***************************************************************************)
EXTENDS Integers, Sequences, FiniteSets, TLC

\* Bounds of the model.
MaxTime == 2     \* the clock stops advancing at MaxTime
MaxRel == 2      \* relative_time of a waypoint ranges over 1..MaxRel

\* An optional value is a sequence of length at most one.
None == << >>
Some(x) == << x >>

----------------------------------------------------------------------------
\* Messages and records

\* A TrajectoryPoint of the planner, one per relative time.
Waypoint(r) ==
    [relative_time |-> r,
     path_point |-> [x |-> r, y |-> r + 1, theta |-> r % 4],
     v |-> r]

RECURSIVE Increasing(_)
\* The waypoint lists with relative times strictly increasing and at most n.
Increasing(n) ==
    IF n = 0 THEN {<< >>}
    ELSE Increasing(n - 1) \cup {Append(s, Waypoint(n)) : s \in Increasing(n - 1)}

Reverse(s) == [i \in 1..Len(s) |-> s[Len(s) + 1 - i]]

\* The waypoint list with every relative time up to n, in order.
RECURSIVE Full(_)
Full(n) == IF n = 0 THEN << >> ELSE Append(Full(n - 1), Waypoint(n))

\* The waypoint lists a planner may send: the ordered ones, and the full list
\* backwards (the order is never validated).
PointLists == Increasing(MaxRel) \cup {Reverse(Full(MaxRel))}

\* ADCTrajectory(): a freshly constructed message has the protobuf defaults.
ADCTrajectory == [timestamp_sec |-> 0, trajectory_point |-> << >>]

\* The trajectory messages that can arrive at clock reading t: the planner
\* stamps a message with the clock reading at which it sends it.
PlanningMsgs(t) ==
    {[timestamp_sec |-> t, trajectory_point |-> p] : p \in PointLists}

\* carla.VehicleControl(): the defaults of a freshly constructed control.
VehicleControl ==
    [throttle |-> 0, steer |-> 0, brake |-> 0, hand_brake |-> FALSE,
     reverse |-> FALSE, manual_gear_shift |-> FALSE, gear |-> 0]

\* CarlaEgoVehicleControl messages (fraction domain: 100 is 1.0).
RosControlMsgs ==
    {[throttle |-> 100, steer |-> 50, brake |-> 0, hand_brake |-> FALSE, reverse |-> FALSE],
     [throttle |-> 0, steer |-> -100, brake |-> 30, hand_brake |-> TRUE, reverse |-> TRUE]}

\* ControlCommand messages (percentage domain: 5000 is 50.0 percent).
CyberControlMsgs ==
    {[throttle |-> 2000, steering_target |-> 5000, brake |-> 0,
      parking_brake |-> FALSE, gear_location |-> "GEAR_DRIVE"],
     [throttle |-> 0, steering_target |-> -10000, brake |-> 10000,
      parking_brake |-> TRUE, gear_location |-> "GEAR_REVERSE"]}

Slots == {1, 2}

\* Keep the objects something still refers to; the others are collected.
Collect(h, roots) == [s \in Slots |-> IF s \in roots THEN h[s] ELSE ADCTrajectory]

\* The locals of set_pose outside set_pose.
NoLocals ==
    [timestamp |-> 0, transform |-> [x |-> 0, y |-> 0, yaw |-> 0], dt |-> 0,
     it_obj |-> 0, it_idx |-> 0]

NoRead == [throttle |-> 0, brake |-> 0, steer |-> 0]

NoChassis ==
    [throttle_percentage |-> 0, brake_percentage |-> 0, steering_percentage |-> 0,
     parking_brake |-> FALSE]

----------------------------------------------------------------------------
\* Pure conversions

\* x / 100.0 on the fixed-point representation.
Div100(x) == x \div 100

\* Mul100 with the factor forgotten.
Mul100Forgotten(x) == x

\* x * 100.0 on the fixed-point representation.
Mul100(x) == x * 100

\* math.degrees of an angle given in quarter turns.
Degrees(theta) == theta * 90

\* carla.Rotation.get_forward_vector for pitch 0 and a yaw that is a multiple
\* of 90 degrees: (cos yaw, sin yaw, 0).
ForwardVector(yaw) ==
    LET k == (yaw \div 90) % 4
    IN  [x |-> CASE k = 0 -> 1 [] k = 2 -> -1 [] OTHER -> 0,
         y |-> CASE k = 1 -> 1 [] k = 3 -> -1 [] OTHER -> 0,
         z |-> 0]

Scale(vec, k) == [x |-> vec.x * k, y |-> vec.y * k, z |-> vec.z * k]

\* The transform set_pose hands to set_transform for waypoint tp.
PoseOf(transform, tp) ==
    [transform EXCEPT !.x = tp.path_point.x,
                      !.y = -tp.path_point.y,
                      !.yaw = -Degrees(tp.path_point.theta)]

\* Qualifies with a waypoint at exactly dt accepted.
QualifiesNonStrict(dt, tp) == dt <= tp.relative_time

\* Qualifies with the comparison turned round.
QualifiesReversed(dt, tp) == tp.relative_time < dt

\* The loop test of set_pose.
Qualifies(dt, tp) == dt < tp.relative_time

\* control_command_updated: the VehicleControl built from a ROS message.
RosToControl(m) ==
    [VehicleControl EXCEPT !.hand_brake = m.hand_brake,
                           !.brake = m.brake,
                           !.steer = m.steer,
                           !.throttle = m.throttle,
                           !.reverse = m.reverse]

\* CyberToControl with the steering sign kept.
CyberToControlNoFlip(m) ==
    [VehicleControl EXCEPT !.hand_brake = m.parking_brake,
                           !.brake = Div100(m.brake),
                           !.steer = Div100(m.steering_target),
                           !.throttle = Div100(m.throttle),
                           !.reverse = (m.gear_location = "GEAR_REVERSE")]

\* cyber_control_command_updated: the VehicleControl built from a cyber message.
CyberToControl(m) ==
    [VehicleControl EXCEPT !.hand_brake = m.parking_brake,
                           !.brake = Div100(m.brake),
                           !.steer = Div100(-m.steering_target),
                           !.throttle = Div100(m.throttle),
                           !.reverse = (m.gear_location = "GEAR_REVERSE")]

----------------------------------------------------------------------------
VARIABLES
    now,                     \* cyber_time.Time.now().to_sec()
    challenge_mode,          \* parent.get_param("challenge_mode")
    vehicle_info_published,  \* self.vehicle_info_published
    planned_trajectory,      \* self.planned_trajectory: 0 (None) or a slot of heap
    heap,                    \* the ADCTrajectory objects, by slot
    subscriptions,           \* the registered subscribers and readers
    actor_released,          \* the actor handle has been released
    control,                 \* carla_actor.get_control()
    actor_transform,         \* carla_actor.get_transform()
    actor_velocity,          \* carla_actor.get_velocity()
    autopilot,               \* what set_autopilot last set
    pc,                      \* position of the main thread
    chassis_msg,             \* the Chassis record send_vehicle_msgs builds
    locals,                  \* the locals of set_pose
    plan_pc,                 \* position of the planning reader's thread
    plan_msg,                \* the message planning_callback is handling
    published,               \* channels written in the current tick, in order
    actor_calls,             \* actor setters called in the current tick, in order
    info_count,              \* vehicle_info records published so far
    last_cmd,                \* the last control command delivered
    last_plan,               \* the last trajectory message delivered
    dt_source,               \* the trajectory timestamp that gave locals.dt
    applied,                 \* the waypoint set_pose applied in the current tick
    entry_pose,              \* the actor's transform and velocity when set_pose began
    control_read             \* the control fractions the chassis record was built from

vars ==
    << now, challenge_mode, vehicle_info_published, planned_trajectory, heap,
       subscriptions, actor_released, control, actor_transform, actor_velocity,
       autopilot, pc, chassis_msg, locals, plan_pc, plan_msg, published,
       actor_calls, info_count, last_cmd, last_plan, dt_source,
       applied, entry_pose, control_read >>

actor_vars == << control, actor_transform, actor_velocity, autopilot >>
main_vars == << pc, chassis_msg, locals, published, actor_calls, info_count, vehicle_info_published, dt_source, applied, entry_pose,
                control_read >>
plan_vars == << planned_trajectory, heap, plan_pc, plan_msg, last_plan >>

\* EgoVehicle.__init__
Init ==
    /\ now = 0
    /\ challenge_mode \in BOOLEAN
    /\ vehicle_info_published = FALSE
    /\ planned_trajectory = 0
    /\ heap = [s \in Slots |-> ADCTrajectory]
    /\ subscriptions = {"control_subscriber", "enable_autopilot_subscriber",
                        "control_reader", "planning_reader"}
    /\ actor_released = FALSE
    /\ control = VehicleControl
    /\ actor_transform = [x |-> 0, y |-> 0, yaw |-> 0]
    /\ actor_velocity = [x |-> 0, y |-> 0, z |-> 0]
    /\ autopilot = FALSE
    /\ pc = "idle"
    /\ chassis_msg = NoChassis
    /\ locals = NoLocals
    /\ plan_pc = "idle"
    /\ plan_msg = None
    /\ published = << >>
    /\ actor_calls = << >>
    /\ info_count = 0
    /\ last_cmd = None
    /\ last_plan = None
    /\ dt_source = None
    /\ applied = None
    /\ entry_pose = None
    /\ control_read = NoRead

----------------------------------------------------------------------------
\* The clock

AdvanceTime ==
    /\ now < MaxTime
    /\ now' = now + 1
    /\ UNCHANGED << challenge_mode, subscriptions, actor_released, last_cmd >>
    /\ UNCHANGED actor_vars
    /\ UNCHANGED main_vars
    /\ UNCHANGED plan_vars

----------------------------------------------------------------------------
\* Inbound callbacks

\* planning_callback, line 104: self.planned_trajectory = ADCTrajectory()
planning_callback_new(msg) ==
    /\ "planning_reader" \in subscriptions
    /\ plan_pc = "idle"
    /\ LET slot == IF locals.it_obj = 1 THEN 2 ELSE 1
       IN  /\ planned_trajectory' = slot
           /\ heap' = Collect([heap EXCEPT ![slot] = ADCTrajectory],
                              {slot, locals.it_obj})
    /\ plan_pc' = "copy"
    /\ plan_msg' = Some(msg)
    /\ last_plan' = Some(msg)
    /\ UNCHANGED << now, challenge_mode, subscriptions, actor_released, last_cmd >>
    /\ UNCHANGED actor_vars
    /\ UNCHANGED main_vars

\* planning_callback, line 105: self.planned_trajectory.CopyFrom(msg)
planning_callback_copy ==
    /\ plan_pc = "copy"
    /\ heap' = [heap EXCEPT ![planned_trajectory] = plan_msg[1]]
    /\ plan_pc' = "idle"
    /\ plan_msg' = None
    /\ UNCHANGED << planned_trajectory, last_plan >>
    /\ UNCHANGED << now, challenge_mode, subscriptions, actor_released, last_cmd >>
    /\ UNCHANGED actor_vars
    /\ UNCHANGED main_vars

\* control_command_updated holding the command back while a tick is running.
control_command_updated_queued(ros_vehicle_control) ==
    /\ "control_subscriber" \in subscriptions
    /\ control' = IF pc = "idle" THEN RosToControl(ros_vehicle_control) ELSE control
    /\ last_cmd' = Some([transport |-> "ros", msg |-> ros_vehicle_control])
    /\ UNCHANGED << actor_transform, actor_velocity, autopilot >>
    /\ UNCHANGED << now, challenge_mode, subscriptions, actor_released >>
    /\ UNCHANGED main_vars
    /\ UNCHANGED plan_vars

\* control_command_updated
control_command_updated(ros_vehicle_control) ==
    /\ "control_subscriber" \in subscriptions
    /\ control' = RosToControl(ros_vehicle_control)
    /\ last_cmd' = Some([transport |-> "ros", msg |-> ros_vehicle_control])
    /\ UNCHANGED << actor_transform, actor_velocity, autopilot >>
    /\ UNCHANGED << now, challenge_mode, subscriptions, actor_released >>
    /\ UNCHANGED main_vars
    /\ UNCHANGED plan_vars

\* cyber_control_command_updated
cyber_control_command_updated(cyber_vehicle_control) ==
    /\ "control_reader" \in subscriptions
    /\ control' = CyberToControl(cyber_vehicle_control)
    /\ last_cmd' = Some([transport |-> "cyber", msg |-> cyber_vehicle_control])
    /\ UNCHANGED << actor_transform, actor_velocity, autopilot >>
    /\ UNCHANGED << now, challenge_mode, subscriptions, actor_released >>
    /\ UNCHANGED main_vars
    /\ UNCHANGED plan_vars

\* enable_autopilot_updated
enable_autopilot_updated(enable_auto_pilot) ==
    /\ "enable_autopilot_subscriber" \in subscriptions
    /\ autopilot' = enable_auto_pilot
    /\ UNCHANGED << control, actor_transform, actor_velocity >>
    /\ UNCHANGED << now, challenge_mode, subscriptions, actor_released, last_cmd >>
    /\ UNCHANGED main_vars
    /\ UNCHANGED plan_vars

----------------------------------------------------------------------------
\* The main thread: update()

rest_vars == << now, challenge_mode, subscriptions, actor_released, last_cmd >>

\* update, lines 215-216: publish the filtered object list.
Update ==
    /\ pc = "idle"
    /\ published' = << "objects" >>
    /\ pc' = "vehicle_status"
    /\ UNCHANGED << chassis_msg, locals, actor_calls, info_count, vehicle_info_published, dt_source, applied, entry_pose, control_read >>
    /\ UNCHANGED rest_vars
    /\ UNCHANGED actor_vars
    /\ UNCHANGED plan_vars

\* send_vehicle_msgs, lines 117-129: the vehicle status record.
send_vehicle_status ==
    /\ pc = "vehicle_status"
    /\ published' = Append(published, "vehicle_status")
    /\ pc' = "chassis_throttle"
    /\ UNCHANGED << chassis_msg, locals, actor_calls, info_count, vehicle_info_published, dt_source, applied, entry_pose, control_read >>
    /\ UNCHANGED rest_vars
    /\ UNCHANGED actor_vars
    /\ UNCHANGED plan_vars

\* send_vehicle_msgs, lines 131-136: one get_control() call per field.
send_chassis_read(at, next) ==
    /\ pc = at
    /\ chassis_msg' =
          CASE at = "chassis_throttle" ->
                 [chassis_msg EXCEPT !.throttle_percentage = Mul100(control.throttle)]
            [] at = "chassis_brake" ->
                 [chassis_msg EXCEPT !.brake_percentage = Mul100(control.brake)]
            [] at = "chassis_steering" ->
                 [chassis_msg EXCEPT !.steering_percentage = Mul100(control.steer)]
    /\ control_read' =
          CASE at = "chassis_throttle" -> [control_read EXCEPT !.throttle = control.throttle]
            [] at = "chassis_brake" -> [control_read EXCEPT !.brake = control.brake]
            [] at = "chassis_steering" -> [control_read EXCEPT !.steer = control.steer]
    /\ pc' = next
    /\ UNCHANGED << locals, published, actor_calls, info_count, vehicle_info_published, dt_source, applied, entry_pose >>
    /\ UNCHANGED rest_vars
    /\ UNCHANGED actor_vars
    /\ UNCHANGED plan_vars

\* send_vehicle_msgs, lines 137-140: the parking brake, then the write.
send_chassis_write ==
    /\ pc = "chassis_write"
    /\ chassis_msg' = [chassis_msg EXCEPT !.parking_brake = control.hand_brake]
    /\ published' = Append(published, "/apollo/canbus/chassis")
    /\ pc' = "vehicle_info"
    /\ UNCHANGED << locals, actor_calls, info_count, vehicle_info_published,
                    dt_source, applied, entry_pose, control_read >>
    /\ UNCHANGED rest_vars
    /\ UNCHANGED actor_vars
    /\ UNCHANGED plan_vars

\* InfoDue with the latch ignored.
InfoDueAlways(latch) == TRUE

\* The guard of the vehicle-info branch, line 142.
InfoDue(latch) == ~latch

\* send_vehicle_msgs, lines 142-174: the vehicle info record, behind the latch.
send_vehicle_info ==
    /\ pc = "vehicle_info"
    /\ IF InfoDue(vehicle_info_published)
       THEN /\ vehicle_info_published' = TRUE
            /\ info_count' = info_count + 1
            /\ published' = Append(published, "vehicle_info")
       ELSE UNCHANGED << vehicle_info_published, info_count, published >>
    /\ pc' = "odometry"
    /\ UNCHANGED << chassis_msg, locals, actor_calls, dt_source, applied,
                    entry_pose, control_read >>
    /\ UNCHANGED rest_vars
    /\ UNCHANGED actor_vars
    /\ UNCHANGED plan_vars

\* OdometryDue with the flag's sense inverted.
OdometryDueInverted(flag) == flag

\* The guard of the odometry branch, line 177.
OdometryDue(flag) == ~flag

\* send_vehicle_msgs, lines 176-205: odometry and localization, then return.
send_odometry ==
    /\ pc = "odometry"
    /\ published' =
          IF OdometryDue(challenge_mode)
          THEN published \o << "odometry", "/apollo/localization/pose" >>
          ELSE published
    /\ pc' = "set_pose"
    /\ UNCHANGED << chassis_msg, locals, actor_calls, info_count,
                    vehicle_info_published, dt_source, applied, entry_pose, control_read >>
    /\ UNCHANGED rest_vars
    /\ UNCHANGED actor_vars
    /\ UNCHANGED plan_vars

\* set_pose, lines 222-225: the None test, the clock and the transform.
set_pose_enter ==
    /\ pc = "set_pose"
    /\ entry_pose' = Some([transform |-> actor_transform, velocity |-> actor_velocity])
    /\ IF planned_trajectory = 0
       THEN /\ pc' = "super_update"
            /\ UNCHANGED locals
       ELSE /\ pc' = "set_pose_dt"
            /\ locals' = [locals EXCEPT !.timestamp = now,
                                        !.transform = actor_transform]
    /\ UNCHANGED << chassis_msg, published, actor_calls, info_count, vehicle_info_published, dt_source, applied, control_read >>
    /\ UNCHANGED rest_vars
    /\ UNCHANGED actor_vars
    /\ UNCHANGED plan_vars

\* set_pose, line 226: dt from the current trajectory's timestamp.
set_pose_dt ==
    /\ pc = "set_pose_dt"
    /\ locals' = [locals EXCEPT
                    !.dt = locals.timestamp - heap[planned_trajectory].timestamp_sec]
    /\ dt_source' = Some(heap[planned_trajectory].timestamp_sec)
    /\ pc' = "set_pose_iter"
    /\ UNCHANGED << chassis_msg, published, actor_calls, info_count, vehicle_info_published, applied, entry_pose, control_read >>
    /\ UNCHANGED rest_vars
    /\ UNCHANGED actor_vars
    /\ UNCHANGED plan_vars

\* set_pose, line 227: the iterator over the current trajectory's waypoints.
set_pose_iter ==
    /\ pc = "set_pose_iter"
    /\ locals' = [locals EXCEPT !.it_obj = planned_trajectory, !.it_idx = 1]
    /\ pc' = "set_pose_next"
    /\ UNCHANGED << chassis_msg, published, actor_calls, info_count, vehicle_info_published, dt_source, applied, entry_pose, control_read >>
    /\ UNCHANGED rest_vars
    /\ UNCHANGED actor_vars
    /\ UNCHANGED plan_vars

\* set_pose, lines 227-235: one round of the loop.
set_pose_next ==
    /\ pc = "set_pose_next"
    /\ LET points == heap[locals.it_obj].trajectory_point
           i == locals.it_idx
       IN  IF i > Len(points)
           THEN /\ pc' = "super_update"
                /\ UNCHANGED << locals, actor_transform, actor_velocity,
                                actor_calls, applied >>
           ELSE IF Qualifies(locals.dt, points[i])
           THEN LET transform == PoseOf(locals.transform, points[i])
                IN  /\ locals' = [locals EXCEPT !.transform = transform]
                    /\ actor_transform' = transform
                    /\ actor_velocity' = Scale(ForwardVector(transform.yaw), points[i].v)
                    /\ actor_calls' = actor_calls \o << "set_transform", "set_velocity" >>
                    /\ applied' = Some([index |-> i, tp |-> points[i],
                                        from |-> heap[locals.it_obj]])
                    /\ pc' = "super_update"
           ELSE /\ locals' = [locals EXCEPT !.it_idx = i + 1]
                /\ pc' = "set_pose_next"
                /\ UNCHANGED << actor_transform, actor_velocity, actor_calls, applied >>
    /\ UNCHANGED << control, autopilot >>
    /\ UNCHANGED << chassis_msg, published, info_count, vehicle_info_published, dt_source, entry_pose, control_read >>
    /\ UNCHANGED rest_vars
    /\ UNCHANGED plan_vars

\* update, line 219: the superclass update ends the tick.
update_return ==
    /\ pc = "super_update"
    /\ pc' = "idle"
    /\ locals' = NoLocals
    /\ heap' = Collect(heap, {planned_trajectory})
    /\ chassis_msg' = NoChassis
    /\ published' = << >>
    /\ actor_calls' = << >>
    /\ dt_source' = None
    /\ applied' = None
    /\ entry_pose' = None
    /\ control_read' = NoRead
    /\ UNCHANGED << info_count, vehicle_info_published >>
    /\ UNCHANGED << planned_trajectory, plan_pc, plan_msg, last_plan >>
    /\ UNCHANGED rest_vars
    /\ UNCHANGED actor_vars

----------------------------------------------------------------------------
\* The main thread: destroy()

destroy_vars == << chassis_msg, locals, published, actor_calls, info_count, vehicle_info_published, dt_source, applied, entry_pose,
                   control_read >>

\* destroy, lines 246-248: unregister the control subscriber.
destroy_control_subscriber ==
    /\ pc = "idle"
    /\ subscriptions' = subscriptions \ {"control_subscriber"}
    /\ pc' = "destroy_autopilot"
    /\ UNCHANGED << now, challenge_mode, actor_released, last_cmd >>
    /\ UNCHANGED destroy_vars
    /\ UNCHANGED actor_vars
    /\ UNCHANGED plan_vars

\* destroy, lines 249-250: unregister the autopilot subscriber.
destroy_autopilot_subscriber ==
    /\ pc = "destroy_autopilot"
    /\ subscriptions' = subscriptions \ {"enable_autopilot_subscriber"}
    /\ pc' = "destroy_cyber"
    /\ UNCHANGED << now, challenge_mode, actor_released, last_cmd >>
    /\ UNCHANGED destroy_vars
    /\ UNCHANGED actor_vars
    /\ UNCHANGED plan_vars

\* destroy_cyber_node with the readers left running.
destroy_cyber_node_readers_kept ==
    /\ pc = "destroy_cyber"
    /\ pc' = "destroy_super"
    /\ UNCHANGED << now, challenge_mode, subscriptions, actor_released, last_cmd >>
    /\ UNCHANGED destroy_vars
    /\ UNCHANGED actor_vars
    /\ UNCHANGED plan_vars

\* destroy, lines 251-252: drop the cyber node and shut cyber down, which ends
\* the node's readers.
destroy_cyber_node ==
    /\ pc = "destroy_cyber"
    /\ subscriptions' = subscriptions \ {"control_reader", "planning_reader"}
    /\ pc' = "destroy_super"
    /\ UNCHANGED << now, challenge_mode, actor_released, last_cmd >>
    /\ UNCHANGED destroy_vars
    /\ UNCHANGED actor_vars
    /\ UNCHANGED plan_vars

\* destroy, line 253: the superclass destroy releases the actor handle.
destroy_super ==
    /\ pc = "destroy_super"
    /\ actor_released' = TRUE
    /\ pc' = "destroyed"
    /\ UNCHANGED << now, challenge_mode, subscriptions, last_cmd >>
    /\ UNCHANGED destroy_vars
    /\ UNCHANGED actor_vars
    /\ UNCHANGED plan_vars

----------------------------------------------------------------------------
\* send_vehicle_msgs, lines 117-205, as one step.  With no control command in
\* flight every get_control() call of the function reads the same control, so
\* the steps above collapse into this one.
send_vehicle_msgs ==
    /\ pc = "vehicle_status"
    /\ chassis_msg' = [throttle_percentage |-> Mul100(control.throttle),
                       brake_percentage |-> Mul100(control.brake),
                       steering_percentage |-> Mul100(control.steer),
                       parking_brake |-> control.hand_brake]
    /\ vehicle_info_published' = TRUE
    /\ info_count' = IF InfoDue(vehicle_info_published) THEN info_count + 1 ELSE info_count
    /\ published' =
          published \o << "vehicle_status", "/apollo/canbus/chassis" >>
            \o (IF InfoDue(vehicle_info_published) THEN << "vehicle_info" >> ELSE << >>)
            \o (IF OdometryDue(challenge_mode)
                THEN << "odometry", "/apollo/localization/pose" >> ELSE << >>)
    /\ control_read' = [throttle |-> control.throttle, brake |-> control.brake,
                        steer |-> control.steer]
    /\ pc' = "set_pose"
    /\ UNCHANGED << locals, actor_calls, dt_source, applied, entry_pose >>
    /\ UNCHANGED rest_vars
    /\ UNCHANGED actor_vars
    /\ UNCHANGED plan_vars

----------------------------------------------------------------------------
\* The status publisher and the control commands: update() against the
\* callbacks that write the actor's control.  No trajectory arrives.
NextStatus ==
    \/ \E m \in RosControlMsgs : control_command_updated(m)
    \/ \E m \in CyberControlMsgs : cyber_control_command_updated(m)
    \/ \E b \in BOOLEAN : enable_autopilot_updated(b)
    \/ Update
    \/ send_vehicle_status
    \/ send_chassis_read("chassis_throttle", "chassis_brake")
    \/ send_chassis_read("chassis_brake", "chassis_steering")
    \/ send_chassis_read("chassis_steering", "chassis_write")
    \/ send_chassis_write
    \/ send_vehicle_info
    \/ send_odometry
    \/ set_pose_enter
    \/ update_return

SpecStatus == Init /\ [][NextStatus]_vars

\* The trajectory follower: update() against the planning reader and the clock.
\* No control command arrives.
NextPlan ==
    \/ AdvanceTime
    \/ \E msg \in PlanningMsgs(now) : planning_callback_new(msg)
    \/ planning_callback_copy
    \/ Update
    \/ send_vehicle_msgs
    \/ set_pose_enter
    \/ set_pose_dt
    \/ set_pose_iter
    \/ set_pose_next
    \/ update_return

SpecPlan == Init /\ [][NextPlan]_vars

\* The teardown: destroy() against the four inbound callbacks.
NextDestroy ==
    \/ \E msg \in PlanningMsgs(now) : planning_callback_new(msg)
    \/ planning_callback_copy
    \/ \E m \in RosControlMsgs : control_command_updated(m)
    \/ \E m \in CyberControlMsgs : cyber_control_command_updated(m)
    \/ \E b \in BOOLEAN : enable_autopilot_updated(b)
    \/ destroy_control_subscriber
    \/ destroy_autopilot_subscriber
    \/ destroy_cyber_node
    \/ destroy_super

SpecDestroy == Init /\ [][NextDestroy]_vars

----------------------------------------------------------------------------
\* Properties

Count(seq, x) == Cardinality({i \in 1..Len(seq) : seq[i] = x})

IndexOf(seq, x) == CHOOSE i \in 1..Len(seq) : seq[i] = x

\* The main thread is past send_vehicle_msgs in the current tick.
AfterSend == pc \in {"set_pose", "set_pose_dt", "set_pose_iter", "set_pose_next",
                     "super_update"}

\* The main thread is past the chassis write in the current tick.
AfterChassis == pc \in {"vehicle_info", "odometry"} \/ AfterSend

\* The main thread is inside set_pose, at a read of self.planned_trajectory.
InSetPose == pc \in {"set_pose", "set_pose_dt", "set_pose_iter", "set_pose_next"}

\* The main thread is past the vehicle-info branch in the current tick.
AfterInfo == pc = "odometry" \/ AfterSend

\* C1: over any number of send_vehicle_msgs calls the vehicle-info record is
\* published exactly once in total: the count never exceeds one, it is one as
\* soon as the first call has passed the branch and in every later call, and
\* the latch vehicle_info_published never goes back from TRUE to FALSE.
C1_InfoPublishedOnce ==
    /\ [](info_count <= 1)
    /\ [](AfterInfo => info_count = 1 /\ vehicle_info_published)
    /\ [](info_count = 0 => Count(published, "vehicle_info") = 0)
    /\ [][info_count' >= info_count]_vars
    /\ [][vehicle_info_published => vehicle_info_published']_vars

\* A later tick has passed the branch without publishing the record again.
C1_Witness ==
    /\ pc = "super_update"
    /\ info_count = 1
    /\ Count(published, "vehicle_info") = 0

\* C2: the waypoint set_pose applies is the first one, in stored order, whose
\* relative_time is strictly greater than dt (one equal to dt is skipped), the
\* actor is set to that waypoint's pose, and a tick makes at most one
\* set_transform and one set_velocity call.
C2_FirstStrictlyGreater ==
    /\ actor_calls \in {<< >>, << "set_transform", "set_velocity" >>}
    /\ (applied = None) = (actor_calls = << >>)
    /\ applied # None =>
          LET tp == applied[1].tp
              points == applied[1].from.trajectory_point
              i == applied[1].index
          IN  /\ points[i] = tp
              /\ tp.relative_time > locals.dt
              /\ \A j \in 1..(i - 1) : points[j].relative_time <= locals.dt
              /\ actor_transform.x = tp.path_point.x
              /\ actor_transform.y = 0 - tp.path_point.y
              /\ actor_transform.yaw = 0 - 90 * tp.path_point.theta

\* The second waypoint was applied after one with relative_time equal to dt
\* was passed over.
C2_Witness ==
    /\ applied # None
    /\ applied[1].index = 2
    /\ locals.dt = 1
    /\ applied[1].from.trajectory_point[1].relative_time = 1
    /\ applied[1].tp.relative_time = 2

\* The waypoints set_pose scanned in this tick.
Scanned == IF locals.it_obj = 0 THEN << >> ELSE heap[locals.it_obj].trajectory_point

\* C3: when set_pose has returned and the trajectory was null, or no waypoint
\* of the scanned trajectory has relative_time greater than dt, set_pose made
\* no set_transform and no set_velocity call and the actor's transform and
\* velocity are what they were when set_pose began.
C3_NoPoseUpdate ==
    (/\ pc = "super_update"
     /\ \/ dt_source = None
        \/ \A i \in 1..Len(Scanned) : ~(Scanned[i].relative_time > locals.dt))
    => /\ actor_calls = << >>
       /\ applied = None
       /\ actor_transform = entry_pose[1].transform
       /\ actor_velocity = entry_pose[1].velocity

\* set_pose returned from an exhausted, non-empty trajectory.
C3_Witness ==
    /\ pc = "super_update"
    /\ dt_source # None
    /\ Len(Scanned) > 0
    /\ \A i \in 1..Len(Scanned) : Scanned[i].relative_time <= locals.dt
    /\ actor_calls = << >>

\* C4: whenever the tick is in set_pose, planned_trajectory is null (no message
\* yet) or a complete copy of the most recently received message.
C4_AtomicReplace ==
    InSetPose =>
        IF planned_trajectory = 0 THEN last_plan = None
        ELSE last_plan = Some(heap[planned_trajectory])

\* The control the last received command asks for.
ExpectedControl ==
    IF last_cmd = None THEN VehicleControl
    ELSE IF last_cmd[1].transport = "ros" THEN RosToControl(last_cmd[1].msg)
    ELSE CyberToControl(last_cmd[1].msg)

\* C5: the actor's control is the conversion of the last received command (the
\* default control before any command), whatever the main thread is doing,
\* and no step of the main thread changes it.
C5_LastCommandWins ==
    /\ [](control = ExpectedControl)
    /\ [][pc' # pc => control' = control]_vars

\* A cyber command replaced a ROS command in the middle of a tick.
C5_Witness ==
    /\ pc = "chassis_brake"
    /\ control_read.throttle = 100
    /\ last_cmd # None
    /\ last_cmd[1].transport = "cyber"
    /\ control.throttle = 20

\* C6: after a cyber command brake, throttle and steer are the command's
\* values over 100 with the steering sign inverted (steering 50 gives -0.5);
\* after a ROS command they are the command's values unchanged.
C6_Conversion ==
    last_cmd # None =>
        LET m == last_cmd[1].msg
        IN  IF last_cmd[1].transport = "cyber"
            THEN /\ control.brake * 100 = m.brake
                 /\ control.throttle * 100 = m.throttle
                 /\ control.steer * 100 = 0 - m.steering_target
                 /\ m.steering_target = 5000 => control.steer = -50
            ELSE /\ control.brake = m.brake
                 /\ control.throttle = m.throttle
                 /\ control.steer = m.steer

\* A cyber command with steering 50 percent is in force.
C6_Witness ==
    /\ last_cmd # None
    /\ last_cmd[1].transport = "cyber"
    /\ last_cmd[1].msg.steering_target = 5000
    /\ control.steer = -50

\* Each percentage of the chassis record is the fraction read, times 100.
C7_TimesHundred ==
    /\ chassis_msg.throttle_percentage = 100 * control_read.throttle
    /\ chassis_msg.brake_percentage = 100 * control_read.brake
    /\ chassis_msg.steering_percentage = 100 * control_read.steer

\* C7 as claimed: in every chassis record written, each of the three
\* percentages is the control fraction times 100 and lies in 0..100.
C7_AllWithinZeroToHundred ==
    AfterChassis =>
        /\ C7_TimesHundred
        /\ chassis_msg.throttle_percentage \in 0..10000
        /\ chassis_msg.brake_percentage \in 0..10000
        /\ chassis_msg.steering_percentage \in 0..10000

\* C7 as amended: each of the three percentages is the control fraction times
\* 100; throttle and brake lie in 0..100 and steering in -100..100.
C7_SteeringSigned ==
    AfterChassis =>
        /\ C7_TimesHundred
        /\ chassis_msg.throttle_percentage \in 0..10000
        /\ chassis_msg.brake_percentage \in 0..10000
        /\ chassis_msg.steering_percentage \in -10000..10000

\* A chassis record with a negative steering percentage was written.
C7_Witness ==
    /\ AfterChassis
    /\ chassis_msg.steering_percentage = -5000
    /\ chassis_msg.throttle_percentage = 2000

\* C8: once send_vehicle_msgs has returned, the tick has published the vehicle
\* status and the chassis record exactly once each, and the odometry and the
\* localization record once each, odometry first, if challenge_mode is false
\* and neither of them if it is true.
C8_OdometryGated ==
    /\ Count(published, "vehicle_status") <= 1
    /\ Count(published, "/apollo/canbus/chassis") <= 1
    /\ AfterSend =>
          /\ Count(published, "vehicle_status") = 1
          /\ Count(published, "/apollo/canbus/chassis") = 1
          /\ IF challenge_mode
             THEN /\ Count(published, "odometry") = 0
                  /\ Count(published, "/apollo/localization/pose") = 0
             ELSE /\ Count(published, "odometry") = 1
                  /\ Count(published, "/apollo/localization/pose") = 1
                  /\ IndexOf(published, "odometry")
                        < IndexOf(published, "/apollo/localization/pose")

\* A tick ran in challenge mode and published status and chassis only.
C8_Witness ==
    /\ challenge_mode
    /\ pc = "super_update"
    /\ info_count = 1
    /\ published = << "objects", "vehicle_status", "/apollo/canbus/chassis" >>

\* A callback can be delivered.
Deliverable ==
    \/ ENABLED (\E m \in RosControlMsgs : control_command_updated(m))
    \/ ENABLED (\E m \in CyberControlMsgs : cyber_control_command_updated(m))
    \/ ENABLED (\E b \in BOOLEAN : enable_autopilot_updated(b))
    \/ ENABLED (\E msg \in PlanningMsgs(now) : planning_callback_new(msg))

C10_SameTrajectory ==
    applied # None =>
        /\ dt_source = Some(applied[1].from.timestamp_sec)
        /\ locals.dt = locals.timestamp - applied[1].from.timestamp_sec

====
